---- MODULE Spec2Model ----
(***************************************************************************)
(* Model of src/main.py: a linear pipeline that asks Gemini for a caption, *)
(* fetches an image from Pollinations (falling back to the local images/   *)
(* folder), synthesises a voice track, renders a video with ffmpeg and     *)
(* uploads it to YouTube, archiving the consumed local image on success.   *)
(***************************************************************************)
EXTENDS Integers, Sequences, FiniteSets, TLC

VARIABLES
    pc,               \* position in the __main__ block
    pool,             \* file names present in IMAGE_DIR
    archive,          \* file names present in USED_DIR
    pool0,            \* IMAGE_DIR as it was when the run started
    archive0,         \* USED_DIR as it was when the run started
    genFile,          \* GEN_IMAGE_FILE: "absent", "stale", "partial", "complete"
    voiceFile,        \* VOICE_FILE exists
    outFile,          \* OUTPUT_FILE was written by this run
    tempBg,           \* temp_bg.png exists
    tempOverlay,      \* temp_overlay.png exists
    modelIdx,         \* index of the next entry of models_to_try
    modelCalls,       \* model names passed to generate_content, in order
    failedModels,     \* model names logged as failed (line 125)
    quoteOutcome,     \* get_ai_quote: "pending", "returned", "raised_key", "raised_all"
    ai_content,       \* the dict returned by get_ai_quote
    quote_text,       \* ai_content.get("quote", "").strip()
    pollAttempts,     \* number of HTTP requests sent to Pollinations
    poll_ok,          \* result of generate_krishna_image
    target_image,     \* file chosen from images/, or None
    image_path_to_use,\* path handed to render_video
    voice_ok,         \* result of generate_voice: "pending", "ok", "failed"
    voiceLen,         \* length of the synthesised audio track
    renderArgs,       \* whether render_video was called, with what, and
                      \* whether it started the encoder
    video,            \* value returned by render_video
    videoDuration,    \* duration of the encoded OUTPUT_FILE
    renderRaised,     \* render_video propagated an exception
    upload,           \* whether upload_to_youtube was called, and how it went
    success,          \* value returned by upload_to_youtube
    exitStatus,       \* "running", "zero", "nonzero"
    precondError,     \* fatal precondition detected: "none" or its name
    calls,            \* external services contacted so far
    written           \* files this run has written so far

vars == <<pc, pool, archive, pool0, archive0, genFile, voiceFile, outFile,
          tempBg, tempOverlay, modelIdx, modelCalls, failedModels,
          quoteOutcome, ai_content, quote_text, pollAttempts, poll_ok,
          target_image, image_path_to_use, voice_ok, voiceLen, renderArgs, video,
          videoDuration, renderRaised, upload, success, exitStatus,
          precondError, calls, written>>

\* ------------------------------------------------------------------------
\* Bounds of the model
\* ------------------------------------------------------------------------

\* longest "quote" string a model response carries
MaxQuoteLen == 2

\* ------------------------------------------------------------------------
\* Paths and configuration (lines 23-30)
\* ------------------------------------------------------------------------

\* a path is a record [dir, stem, ext]; a bare file name has dir = ""
None == [dir |-> "", stem |-> "", ext |-> ""]

GEN_IMAGE_FILE == [dir |-> "base", stem |-> "generated", ext |-> "png"]
VOICE_FILE == [dir |-> "base", stem |-> "voice", ext |-> "mp3"]
OUTPUT_FILE == [dir |-> "base", stem |-> "short", ext |-> "mp4"]
IMAGE_DIR == "images"
USED_DIR == "images_used"

\* os.path.join(dir, name)
Join(dir, name) == [name EXCEPT !.dir = dir]

\* str.lower() on the extensions that occur
Lower(ext) ==
    CASE ext = "PNG" -> "png"
      [] ext = "JPG" -> "jpg"
      [] OTHER -> ext

\* ------------------------------------------------------------------------
\* Strings: a string is a sequence of characters
\* ------------------------------------------------------------------------

Chars == {" ", "x"}

RECURSIVE SeqsUpTo(_, _)
SeqsUpTo(S, n) ==
    IF n = 0 THEN {<<>>}
    ELSE LET shorter == SeqsUpTo(S, n - 1)
         IN shorter \cup {Append(s, c) : s \in shorter, c \in S}

QuoteTexts == SeqsUpTo(Chars, MaxQuoteLen)

RECURSIVE LStrip(_)
LStrip(s) ==
    IF s = <<>> THEN s
    ELSE IF Head(s) = " " THEN LStrip(Tail(s)) ELSE s

RECURSIVE RStrip(_)
RStrip(s) ==
    IF s = <<>> THEN s
    ELSE IF s[Len(s)] = " " THEN RStrip(SubSeq(s, 1, Len(s) - 1)) ELSE s

\* str.strip()
Strip(s) == RStrip(LStrip(s))

\* str.split(): the maximal runs of non-blank characters
RECURSIVE Words(_, _)
Words(s, cur) ==
    IF s = <<>> THEN (IF cur = <<>> THEN <<>> ELSE <<cur>>)
    ELSE IF Head(s) = " "
         THEN (IF cur = <<>> THEN Words(Tail(s), <<>>)
               ELSE <<cur>> \o Words(Tail(s), <<>>))
         ELSE Words(Tail(s), Append(cur, Head(s)))

\* textwrap.TextWrapper(width=25)
WrapWidth == 25

\* TextWrapper.wrap: greedy filling of lines with blank-separated words
RECURSIVE WrapWords(_, _)
WrapWords(ws, line) ==
    IF ws = <<>> THEN (IF line = <<>> THEN <<>> ELSE <<line>>)
    ELSE IF line = <<>> THEN WrapWords(Tail(ws), Head(ws))
    ELSE IF Len(line) + 1 + Len(Head(ws)) <= WrapWidth
         THEN WrapWords(Tail(ws), line \o <<" ">> \o Head(ws))
         ELSE <<line>> \o WrapWords(Tail(ws), Head(ws))

Wrap(text) == WrapWords(Words(text, <<>>), <<>>)

\* ------------------------------------------------------------------------
\* Environment variables
\* ------------------------------------------------------------------------

Unset == "<unset>"

\* what os.environ.get(key) can yield: nothing, an empty string, a value
EnvValues == {Unset, "", "secret"}

\* "not os.environ.get(key)" is true for an unset and for an empty variable
Missing(v) == v \in {Unset, ""}

\* ------------------------------------------------------------------------
\* 1. get_ai_quote (lines 71-128)
\* ------------------------------------------------------------------------

models_to_try == <<"gemini-2.5-flash", "gemini-2.0-flash", "gemini-1.5-flash">>

\* A reply is a sequence of tokens [t, v]; v is the text of a "quote" field.
Tok(t, v) == [t |-> t, v |-> v]
Blank == Tok(" ", <<>>)
Fence == Tok("fence", <<>>)
FenceJson == Tok("fence_json", <<>>)
LBrace == Tok("{", <<>>)
RBrace == Tok("}", <<>>)
Prose == Tok("prose", <<>>)
Garbage == Tok("garbage", <<>>)
TitleField == Tok("title", <<>>)
QuoteNull == Tok("quote_null", <<>>)
QuoteField(v) == Tok("quote", v)

\* JSON values of the fields of the payload
Absent == [kind |-> "absent", s |-> <<>>]
Null == [kind |-> "null", s |-> <<>>]
Str(s) == [kind |-> "str", s |-> s]

NoData == [quote |-> Absent, title |-> Absent]

\* the field lists a reply can put between its braces
Bodies ==
    {<<QuoteField(v), TitleField>> : v \in QuoteTexts}
    \cup {<<QuoteField(<<"x">>)>>, <<TitleField>>, <<QuoteNull, TitleField>>,
          <<>>, <<Garbage>>, <<QuoteField(<<"x">>), Garbage>>}

Braced(b) == <<LBrace>> \o b \o <<RBrace>>

\* result.text of the replies the service can give
Texts ==
    {Braced(b) : b \in Bodies}
    \cup {<<FenceJson>> \o Braced(b) \o <<Fence>> : b \in {<<QuoteField(<<"x">>), TitleField>>, <<Garbage>>}}
    \cup {<<Blank, Fence>> \o Braced(<<QuoteField(<<"x">>)>>) \o <<Fence, Blank>>,
          <<Prose>> \o Braced(<<QuoteField(<<"x">>), TitleField>>) \o <<Prose>>,
          <<Prose, FenceJson>> \o Braced(<<TitleField>>) \o <<Fence, Prose>>,
          <<Prose>>,
          <<>>,
          <<Fence, Prose, Fence>>,
          <<LBrace, Prose>>,
          <<RBrace, Prose, LBrace>>,
          Braced(<<QuoteField(<<"x">>)>>) \o <<Prose>> \o Braced(<<TitleField>>)}

\* a reply: generate_content / result.text raised, or a text came back
Responses ==
    {[error |-> TRUE, text |-> <<>>]} \cup {[error |-> FALSE, text |-> t] : t \in Texts}

RECURSIVE LStripRaw(_)
LStripRaw(r) ==
    IF r = <<>> THEN r
    ELSE IF Head(r) = Blank THEN LStripRaw(Tail(r)) ELSE r

RECURSIVE RStripRaw(_)
RStripRaw(r) ==
    IF r = <<>> THEN r
    ELSE IF r[Len(r)] = Blank THEN RStripRaw(SubSeq(r, 1, Len(r) - 1)) ELSE r

\* result.text.strip() (line 105)
StripRaw(r) == RStripRaw(LStripRaw(r))

IsFence(tok) == tok \in {Fence, FenceJson}

\* lines 107-108: fences are removed only if the text starts with one
RemoveFences(raw) ==
    IF raw # <<>> /\ IsFence(raw[1])
    THEN SelectSeq(raw, LAMBDA tok : ~IsFence(tok))
    ELSE raw

SetMin(S) == CHOOSE x \in S : \A y \in S : x <= y
SetMax(S) == CHOOSE x \in S : \A y \in S : x >= y

\* str.find / str.rfind: 0-based index of the first / last occurrence, or -1
Find(raw, tok) ==
    LET hits == {i \in 1..Len(raw) : raw[i] = tok}
    IN IF hits = {} THEN -1 ELSE SetMin(hits) - 1

RFind(raw, tok) ==
    LET hits == {i \in 1..Len(raw) : raw[i] = tok}
    IN IF hits = {} THEN -1 ELSE SetMax(hits) - 1

\* the slice raw[start:end] for 0 <= start
Slice(raw, start, end) == SubSeq(raw, start + 1, end)

IsFieldTok(tok) == tok.t \in {"quote", "quote_null", "title", " "}

\* json.loads on the extracted span: an object of fields, or a parse error
JsonLoads(text) ==
    LET n == Len(text)
        wellFormed == /\ n >= 2
                      /\ text[1] = LBrace
                      /\ text[n] = RBrace
                      /\ \A i \in 2..(n - 1) : IsFieldTok(text[i])
        quotes == {i \in 2..(n - 1) : text[i].t \in {"quote", "quote_null"}}
        titles == {i \in 2..(n - 1) : text[i].t = "title"}
        q == IF quotes = {} THEN Absent
             ELSE IF text[SetMax(quotes)].t = "quote_null" THEN Null
             ELSE Str(text[SetMax(quotes)].v)
        t == IF titles = {} THEN Absent ELSE Str(<<"x">>)
    IN IF wellFormed THEN [ok |-> TRUE, data |-> [quote |-> q, title |-> t]]
       ELSE [ok |-> FALSE, data |-> NoData]

\* the body of the try block for one model (lines 101-122)
ModelAttempt(resp) ==
    IF resp.error THEN [ok |-> FALSE, why |-> "request", data |-> NoData]
    ELSE LET raw == RemoveFences(StripRaw(resp.text))
             start == Find(raw, LBrace)
             end == RFind(raw, RBrace) + 1
         IN IF start = -1 \/ end = 0
            THEN [ok |-> FALSE, why |-> "no_json", data |-> NoData]
            ELSE LET j == JsonLoads(Slice(raw, start, end))
                 IN IF j.ok THEN [ok |-> TRUE, why |-> "", data |-> j.data]
                    ELSE [ok |-> FALSE, why |-> "parse", data |-> NoData]

\* dict.get(key, default) for the "quote" key
GetQuote(data, default) ==
    IF data.quote.kind = "absent" THEN default ELSE data.quote

\* ------------------------------------------------------------------------
\* 0. generate_krishna_image (lines 41-65)
\* ------------------------------------------------------------------------

\* what the single requests.get can do: HTTP 200 with the whole body,
\* another status, an exception of requests.get, an exception while the
\* chunks are being written
HttpOutcomes == {"ok", "non200", "network_error", "write_error"}

\* the return value and the state of out_path after the call
GenerateKrishnaImage(outcome, file) ==
    CASE outcome = "ok" -> [ret |-> TRUE, file |-> "complete", wrote |-> TRUE]
      [] outcome = "write_error" -> [ret |-> FALSE, file |-> "partial", wrote |-> TRUE]
      [] OTHER -> [ret |-> FALSE, file |-> file, wrote |-> FALSE]

\* ------------------------------------------------------------------------
\* 3. render_video (lines 156-292)
\* ------------------------------------------------------------------------

\* where the body can throw: nowhere, in Image.open/resize/save (before
\* temp_bg.png exists), while drawing the text (after temp_bg.png, before
\* temp_overlay.png), when the encoder cannot be started, when the encoder
\* exits with a non-zero status
RenderFaults == {"none", "image_open", "draw", "ffmpeg_missing", "encoder_nonzero"}

\* "-loop 1 -i temp_bg.png ... -shortest" (lines 253-276): the looped
\* picture never ends, so the output ends with the audio stream; the
\* command carries no "-t" limit
EncodedDuration(audioLen) == audioLen

\* the try block (lines 159-284): how it ends, what it left on disk and
\* whether the encoder subprocess was started
RenderTry(imageExists, voiceExists, quote, bg, ov, fault, audioLen) ==
    LET nothing == [result |-> "return_none", bg |-> bg, ov |-> ov,
                    out |-> FALSE, duration |-> 0, encoder |-> FALSE]
    IN IF ~imageExists THEN nothing
       ELSE IF ~voiceExists THEN nothing
       ELSE IF fault = "image_open" THEN [nothing EXCEPT !.result = "exception"]
       ELSE IF Wrap(Strip(quote)) = <<>> THEN [nothing EXCEPT !.bg = TRUE]
       ELSE IF fault = "draw"
            THEN [nothing EXCEPT !.result = "exception", !.bg = TRUE]
       ELSE IF fault = "ffmpeg_missing"
            THEN [nothing EXCEPT !.result = "exception", !.bg = TRUE, !.ov = TRUE]
       ELSE IF fault = "encoder_nonzero"
            THEN [nothing EXCEPT !.result = "exception", !.bg = TRUE, !.ov = TRUE,
                                 !.encoder = TRUE]
       ELSE [result |-> "return_out", bg |-> TRUE, ov |-> TRUE, out |-> TRUE,
             duration |-> EncodedDuration(audioLen), encoder |-> TRUE]

\* the finally block (lines 286-292): os.remove of a file that exists
Removed(exists) == IF exists THEN FALSE ELSE exists

\* a variant that cleans up only when the body ran to its end
RenderVideoCleanupOnSuccess(imageExists, voiceExists, quote, bg, ov, fault, audioLen) ==
    LET t == RenderTry(imageExists, voiceExists, quote, bg, ov, fault, audioLen)
        ok == t.result = "return_out"
    IN [ret |-> IF ok THEN OUTPUT_FILE ELSE None,
        raised |-> FALSE,
        bg |-> IF ok THEN Removed(t.bg) ELSE t.bg,
        ov |-> IF ok THEN Removed(t.ov) ELSE t.ov,
        out |-> t.out, duration |-> t.duration, encoder |-> t.encoder]

\* render_video: try / except Exception / finally
RenderVideo(imageExists, voiceExists, quote, bg, ov, fault, audioLen) ==
    LET t == RenderTry(imageExists, voiceExists, quote, bg, ov, fault, audioLen)
    IN [ret |-> IF t.result = "return_out" THEN OUTPUT_FILE ELSE None,
        raised |-> FALSE,
        bg |-> Removed(t.bg),
        ov |-> Removed(t.ov),
        out |-> t.out, duration |-> t.duration, encoder |-> t.encoder]

\* ------------------------------------------------------------------------
\* 4. upload_to_youtube (lines 298-347)
\* ------------------------------------------------------------------------

required_env == <<"YOUTUBE_REFRESH_TOKEN", "YOUTUBE_CLIENT_ID", "YOUTUBE_CLIENT_SECRET">>

RequiredKeys == {required_env[i] : i \in 1..Len(required_env)}

\* where the try block can throw: nowhere, in Credentials(...), in build(...),
\* in MediaFileUpload(...), in request.execute() (authentication, quota,
\* network), or in response['id'] when the reply carries no identifier
UploadFaults == {"none", "credentials", "build", "media", "execute", "no_id"}

\* the first key of required_env whose value is missing, or "none"
FirstMissing(creds) ==
    LET bad == {i \in 1..Len(required_env) : Missing(creds[required_env[i]])}
    IN IF bad = {} THEN "none" ELSE required_env[SetMin(bad)]

\* the try block (lines 311-342): how it ends; network: request.execute()
\* was reached; executed: request.execute() returned a reply; gotId: the
\* reply carried an 'id'
UploadTry(fault) ==
    [result |-> IF fault = "none" THEN "return_true" ELSE "exception",
     error |-> CASE fault = "none" -> "none"
                 [] fault = "no_id" -> "KeyError"
                 [] fault = "execute" -> "HttpError"
                 [] OTHER -> "Exception",
     network |-> fault \in {"none", "execute", "no_id"},
     executed |-> fault \in {"none", "no_id"},
     gotId |-> fault = "none"]

\* a variant whose handler catches the errors of the service only, so that
\* the KeyError of response['id'] escapes
UploadToYoutubeNarrowExcept(creds, fault) ==
    LET t == UploadTry(fault)
    IN IF FirstMissing(creds) # "none"
       THEN [ret |-> FALSE, raised |-> FALSE, network |-> FALSE,
             executed |-> FALSE, gotId |-> FALSE, missing |-> FirstMissing(creds)]
       ELSE [ret |-> t.result = "return_true",
             raised |-> t.error = "KeyError",
             network |-> t.network, executed |-> t.executed, gotId |-> t.gotId,
             missing |-> "none"]

\* upload_to_youtube: the check of required_env, then try / except Exception
UploadToYoutube(creds, fault) ==
    LET t == UploadTry(fault)
    IN IF FirstMissing(creds) # "none"
       THEN [ret |-> FALSE, raised |-> FALSE, network |-> FALSE,
             executed |-> FALSE, gotId |-> FALSE, missing |-> FirstMissing(creds)]
       ELSE [ret |-> t.result = "return_true",
             raised |-> t.result = "exception" /\ t.error \notin {"KeyError", "HttpError", "Exception"},
             network |-> t.network, executed |-> t.executed, gotId |-> t.gotId,
             missing |-> "none"]

\* ------------------------------------------------------------------------
\* The file system as the script sees it
\* ------------------------------------------------------------------------

\* os.path.exists
Exists(path) ==
    CASE path = GEN_IMAGE_FILE -> genFile # "absent"
      [] path = VOICE_FILE -> voiceFile
      [] path.dir = IMAGE_DIR -> Join("", path) \in pool
      [] OTHER -> FALSE

\* line 374: the entries of images/ whose lower-cased name ends in .jpg or .png
ImagesIn(dir) == {f \in dir : Lower(f.ext) \in {"jpg", "png"}}

File(stem, ext) == [dir |-> "", stem |-> stem, ext |-> ext]

\* contents of images/ and images_used/ a run can start with
PoolChoices ==
    {{}, {File("notes", "txt")}, {File("a", "jpg")},
     {File("a", "jpg"), File("b", "PNG"), File("notes", "txt")}}

ArchiveChoices == {{}, {File("old", "jpg")}}

\* lengths the synthesised voice track can have
AudioLens == {7, 58, 120}

\* ------------------------------------------------------------------------
\* 5. The __main__ block (lines 353-406)
\* ------------------------------------------------------------------------

NoRender == [called |-> FALSE, image |-> None, quote |-> <<>>, encoder |-> FALSE]
NoUpload == [called |-> FALSE, raised |-> FALSE, network |-> FALSE,
             executed |-> FALSE, gotId |-> FALSE, missing |-> "none"]

Init ==
    /\ pc = "get_ai_quote"
    /\ pool \in PoolChoices
    /\ archive \in ArchiveChoices
    /\ pool0 = pool
    /\ archive0 = archive
    /\ genFile \in {"absent", "stale"}
    /\ voiceFile = FALSE
    /\ outFile = FALSE
    /\ tempBg \in BOOLEAN
    /\ tempOverlay = tempBg
    /\ modelIdx = 1
    /\ modelCalls = <<>>
    /\ failedModels = <<>>
    /\ quoteOutcome = "pending"
    /\ ai_content = NoData
    /\ quote_text = <<>>
    /\ pollAttempts = 0
    /\ poll_ok = FALSE
    /\ target_image = None
    /\ image_path_to_use = None
    /\ voice_ok = "pending"
    /\ voiceLen = 0
    /\ renderArgs = NoRender
    /\ video = None
    /\ videoDuration = 0
    /\ renderRaised = FALSE
    /\ upload = NoUpload
    /\ success = FALSE
    /\ exitStatus = "running"
    /\ precondError = "none"
    /\ calls = {}
    /\ written = {}

fileVars == <<pool, archive, pool0, archive0, genFile, voiceFile, outFile,
              tempBg, tempOverlay, written>>
quoteVars == <<modelIdx, modelCalls, failedModels, quoteOutcome, ai_content,
               quote_text>>
imageVars == <<pollAttempts, poll_ok, target_image, image_path_to_use>>
voiceVars == <<voice_ok, voiceLen>>
renderVars == <<renderArgs, video, videoDuration, renderRaised>>
uploadVars == <<upload, success>>

\* lines 76-82: the API key is read and checked before any model is called
GetAiQuoteKey ==
    /\ pc = "get_ai_quote"
    /\ \E api_key \in EnvValues :
         IF Missing(api_key)
         THEN /\ quoteOutcome' = "raised_key"
              /\ precondError' = "GEMINI_API_KEY"
              /\ exitStatus' = "nonzero"
              /\ pc' = "done"
         ELSE /\ quoteOutcome' = "pending"
              /\ precondError' = precondError
              /\ exitStatus' = exitStatus
              /\ pc' = "models"
    /\ UNCHANGED <<fileVars, modelIdx, modelCalls, failedModels, ai_content,
                   quote_text, imageVars, voiceVars, renderVars, uploadVars, calls>>

\* a variant of the loop that gives up at the first model that fails
ContinueAfterFailureNever(idx) == FALSE

\* lines 99, 124-126: after a failure the loop goes on while models remain
ContinueAfterFailure(idx) == idx < Len(models_to_try)

\* lines 99-128: one iteration of the loop over models_to_try; the last
\* failing iteration falls out of the loop into the raise of line 128
TryModel ==
    /\ pc = "models"
    /\ \E resp \in Responses :
         LET name == models_to_try[modelIdx]
             a == ModelAttempt(resp)
         IN /\ modelCalls' = Append(modelCalls, name)
            /\ calls' = calls \cup {"gemini"}
            /\ IF a.ok
               THEN /\ ai_content' = a.data
                    /\ quoteOutcome' = "returned"
                    /\ pc' = "main_quote"
                    /\ UNCHANGED <<failedModels, modelIdx, exitStatus>>
               ELSE /\ failedModels' = Append(failedModels, name)
                    /\ ai_content' = ai_content
                    /\ IF ContinueAfterFailure(modelIdx)
                       THEN /\ modelIdx' = modelIdx + 1
                            /\ UNCHANGED <<quoteOutcome, pc, exitStatus>>
                       ELSE /\ quoteOutcome' = "raised_all"
                            /\ exitStatus' = "nonzero"
                            /\ pc' = "done"
                            /\ UNCHANGED modelIdx
    /\ UNCHANGED <<fileVars, quote_text, imageVars, voiceVars, renderVars,
                   uploadVars, precondError>>

\* lines 356-362: a "quote" that is not a string makes .strip() raise, an
\* empty one leads to exit(1)
MainQuote ==
    /\ pc = "main_quote"
    /\ LET q == GetQuote(ai_content, Str(<<>>))
       IN IF q.kind = "null"
          THEN /\ exitStatus' = "nonzero"
               /\ pc' = "done"
               /\ UNCHANGED quote_text
          ELSE /\ quote_text' = Strip(q.s)
               /\ IF Strip(q.s) = <<>>
                  THEN exitStatus' = "nonzero" /\ pc' = "done"
                  ELSE exitStatus' = exitStatus /\ pc' = "generate_image"
    /\ UNCHANGED <<fileVars, modelIdx, modelCalls, failedModels, quoteOutcome,
                   ai_content, imageVars, voiceVars, renderVars, uploadVars,
                   precondError, calls>>

\* a variant that hands the generated file to the renderer in any case
ImagePathToUseGenerated(ok, target) == GEN_IMAGE_FILE

\* lines 369-381: the generated file if the download succeeded, else the
\* chosen file of images/
ImagePathToUse(ok, target) ==
    IF ok THEN GEN_IMAGE_FILE ELSE Join(IMAGE_DIR, target)

\* line 367: the one call of generate_krishna_image
GenerateImage ==
    /\ pc = "generate_image"
    /\ \E outcome \in HttpOutcomes :
         LET g == GenerateKrishnaImage(outcome, genFile)
         IN /\ poll_ok' = g.ret
            /\ genFile' = g.file
            /\ written' = IF g.wrote THEN written \cup {GEN_IMAGE_FILE} ELSE written
    /\ pollAttempts' = pollAttempts + 1
    /\ calls' = calls \cup {"pollinations"}
    /\ pc' = "select_image"
    /\ UNCHANGED <<pool, archive, pool0, archive0, voiceFile, outFile, tempBg,
                   tempOverlay, quoteVars, target_image, image_path_to_use,
                   voiceVars, renderVars, uploadVars, exitStatus, precondError>>

\* lines 369-383: keep the generated image, or fall back to images/
SelectImage ==
    /\ pc = "select_image"
    /\ IF poll_ok
       THEN /\ target_image' = None
            /\ image_path_to_use' = ImagePathToUse(poll_ok, None)
            /\ pc' = "generate_voice"
            /\ UNCHANGED <<exitStatus, precondError>>
       ELSE IF ImagesIn(pool) = {}
            THEN /\ precondError' = "empty_pool"
                 /\ exitStatus' = "nonzero"
                 /\ pc' = "done"
                 /\ image_path_to_use' = GEN_IMAGE_FILE
                 /\ UNCHANGED target_image
            ELSE /\ \E choice \in ImagesIn(pool) :
                      /\ target_image' = choice
                      /\ image_path_to_use' = ImagePathToUse(poll_ok, choice)
                 /\ pc' = "generate_voice"
                 /\ UNCHANGED <<exitStatus, precondError>>
    /\ UNCHANGED <<fileVars, quoteVars, pollAttempts, poll_ok, voiceVars,
                   renderVars, uploadVars, calls>>

\* lines 144-150, 386-389: edge-tts writes VOICE_FILE or the run ends
GenerateVoice ==
    /\ pc = "generate_voice"
    /\ calls' = calls \cup {"edge_tts"}
    /\ \E ok \in BOOLEAN, len \in AudioLens :
         IF ok
         THEN /\ voiceFile' = TRUE
              /\ voice_ok' = "ok"
              /\ voiceLen' = len
              /\ written' = written \cup {VOICE_FILE}
              /\ pc' = "render_video"
              /\ UNCHANGED exitStatus
         ELSE /\ voice_ok' = "failed"
              /\ exitStatus' = "nonzero"
              /\ pc' = "done"
              /\ UNCHANGED <<voiceFile, voiceLen, written>>
    /\ UNCHANGED <<pool, archive, pool0, archive0, genFile, outFile, tempBg,
                   tempOverlay, quoteVars, imageVars, renderVars, uploadVars,
                   precondError>>

\* a variant that uploads whatever render_video returned
AfterRenderAlwaysUpload(v) == "upload"

\* lines 394, 405-406: upload only if render_video returned a path
AfterRender(v) == IF v # None THEN "upload" ELSE "done"

\* line 392: the call of render_video
Render ==
    /\ pc = "render_video"
    /\ \E fault \in RenderFaults :
         LET r == RenderVideo(Exists(image_path_to_use), Exists(VOICE_FILE),
                              quote_text, tempBg, tempOverlay, fault, voiceLen)
         IN /\ renderArgs' = [called |-> TRUE, image |-> image_path_to_use,
                              quote |-> quote_text, encoder |-> r.encoder]
            /\ video' = r.ret
            /\ videoDuration' = r.duration
            /\ renderRaised' = r.raised
            /\ tempBg' = r.bg
            /\ tempOverlay' = r.ov
            /\ outFile' = (outFile \/ r.out)
            /\ written' = IF r.out THEN written \cup {OUTPUT_FILE} ELSE written
            /\ pc' = AfterRender(r.ret)
            /\ exitStatus' = IF AfterRender(r.ret) = "done" THEN "zero" ELSE exitStatus
    /\ UNCHANGED <<pool, archive, pool0, archive0, genFile, voiceFile,
                   quoteVars, imageVars, voiceVars, uploadVars, precondError, calls>>

\* line 395: the call of upload_to_youtube; the credentials are read from
\* the environment inside the call
Upload ==
    /\ pc = "upload"
    /\ \E creds \in [RequiredKeys -> EnvValues], fault \in UploadFaults :
         LET u == UploadToYoutube(creds, fault)
         IN /\ upload' = [called |-> TRUE, raised |-> u.raised, network |-> u.network,
                          executed |-> u.executed, gotId |-> u.gotId,
                          missing |-> u.missing]
            /\ success' = u.ret
            /\ calls' = IF u.network THEN calls \cup {"youtube"} ELSE calls
            /\ precondError' = IF u.missing # "none" THEN u.missing ELSE precondError
            /\ IF u.raised
               THEN exitStatus' = "nonzero" /\ pc' = "done"
               ELSE exitStatus' = exitStatus /\ pc' = "archive"
    /\ UNCHANGED <<fileVars, quoteVars, imageVars, voiceVars, renderVars>>

\* a variant that archives the local image whatever the upload reported
ShouldArchiveAnyway(ok, target) == target # None

\* line 398: "if success and target_image"
ShouldArchive(ok, target) == ok /\ target # None

\* lines 398-404: shutil.move of the consumed local image into images_used/,
\* then the script ends
Archive ==
    /\ pc = "archive"
    /\ IF ShouldArchive(success, target_image)
       THEN /\ archive' = archive \cup {target_image}
            /\ IF image_path_to_use.dir = IMAGE_DIR
               THEN pool' = pool \ {Join("", image_path_to_use)} /\ genFile' = genFile
               ELSE pool' = pool /\ genFile' = "absent"
       ELSE UNCHANGED <<pool, archive, genFile>>
    /\ exitStatus' = "zero"
    /\ pc' = "done"
    /\ UNCHANGED <<pool0, archive0, voiceFile, outFile, tempBg, tempOverlay,
                   written, quoteVars, imageVars, voiceVars, renderVars,
                   uploadVars, precondError, calls>>

Next ==
    \/ GetAiQuoteKey
    \/ TryModel
    \/ MainQuote
    \/ GenerateImage
    \/ SelectImage
    \/ GenerateVoice
    \/ Render
    \/ Upload
    \/ Archive

Spec == Init /\ [][Next]_vars

\* ------------------------------------------------------------------------
\* render_video on its own: called with any arguments, in any directory
\* ------------------------------------------------------------------------

RenderInit ==
    /\ pc = "render_video"
    /\ pool \in {{}, {File("a", "jpg")}}
    /\ archive = {}
    /\ pool0 = pool
    /\ archive0 = archive
    /\ genFile \in {"absent", "complete"}
    /\ voiceFile \in BOOLEAN
    /\ outFile = FALSE
    /\ tempBg \in BOOLEAN
    /\ tempOverlay \in BOOLEAN
    /\ modelIdx = 1
    /\ modelCalls = <<>>
    /\ failedModels = <<>>
    /\ quoteOutcome = "pending"
    /\ ai_content = NoData
    /\ quote_text \in QuoteTexts
    /\ pollAttempts = 0
    /\ poll_ok = FALSE
    /\ target_image = None
    /\ image_path_to_use \in {GEN_IMAGE_FILE, Join(IMAGE_DIR, File("a", "jpg"))}
    /\ voice_ok = "ok"
    /\ voiceLen \in AudioLens
    /\ renderArgs = NoRender
    /\ video = None
    /\ videoDuration = 0
    /\ renderRaised = FALSE
    /\ upload = NoUpload
    /\ success = FALSE
    /\ exitStatus = "running"
    /\ precondError = "none"
    /\ calls = {}
    /\ written = {}

RenderSpec == RenderInit /\ [][Render]_vars

\* ------------------------------------------------------------------------
\* Properties
\* ------------------------------------------------------------------------

IsPrefix(a, b) == Len(a) <= Len(b) /\ a = SubSeq(b, 1, Len(a))

Min(a, b) == IF a <= b THEN a ELSE b

\* C1: the local source image leaves images/ for images_used/ only after
\* upload_to_youtube has returned True; when the upload has failed, at the
\* end of the run the image drawn from the local pool is still in images/
\* and images_used/ is as it was.
C1_ArchiveOnlyAfterUploadSuccess ==
    /\ (pool # pool0 \/ archive # archive0) => (upload.called /\ success)
    /\ (pc = "done" /\ upload.called /\ ~success /\ target_image # None)
         => (target_image \in pool /\ pool = pool0 /\ archive = archive0)

\* a run that ended after request.execute() failed on a video rendered from
\* a file of images/
C1_Witness ==
    /\ pc = "done"
    /\ upload.called /\ upload.network /\ ~upload.executed /\ ~success
    /\ target_image # None

\* C2: once every caption model has failed, or the voice synthesis has
\* failed, or render_video has returned None, upload_to_youtube is not
\* called and no image is archived; after a caption or voice failure
\* render_video is not called either.
C2_StageFatalAborts ==
    /\ (quoteOutcome = "raised_all" \/ voice_ok = "failed"
          \/ (renderArgs.called /\ video = None))
         => (~upload.called /\ pool = pool0 /\ archive = archive0)
    /\ (quoteOutcome = "raised_all" \/ voice_ok = "failed") => ~renderArgs.called

\* a run that ended because the encoder was started and render_video
\* returned None: the encoder exited with a non-zero status
C2_Witness ==
    /\ pc = "done" /\ voice_ok = "ok"
    /\ renderArgs.called /\ renderArgs.encoder /\ video = None

\* C3: when a fatal precondition error is detected (missing API key, a
\* missing upload credential, empty images/ when the fallback is needed),
\* the run has a non-zero exit status and has had no side effect: no
\* service was called and no file was written.
C3_PreconditionErrorHasNoSideEffect ==
    precondError # "none"
        => (exitStatus = "nonzero" /\ calls = {} /\ written = {})

\* C4: the run falls through to images/ only after three requests to the
\* image service.
C4_FallbackAfterThreeAttempts ==
    (target_image # None \/ precondError = "empty_pool") => pollAttempts = 3

C6_ReturnedPayloadHasQuote ==
    quoteOutcome = "returned"
        => (ai_content.quote.kind = "str" /\ Strip(ai_content.quote.s) # <<>>)

\* C7: the duration of the rendered video is the smaller of the audio
\* length and 58.
C7_DurationClamped ==
    (renderArgs.called /\ video = OUTPUT_FILE)
        => videoDuration = Min(voiceLen, 58)

C9_UploadReportsBoolean ==
    upload.called
        => /\ ~upload.raised
           /\ success => (upload.executed /\ upload.gotId)
           /\ upload.missing # "none"
                => (~success /\ ~upload.network /\ "youtube" \notin calls)

\* request.execute() returned a reply without an identifier
C9_Witness ==
    upload.called /\ upload.executed /\ ~upload.gotId /\ ~success

\* C10: at most one file leaves images/, and it is the file render_video
\* was given; when the image was generated, images/ and images_used/ stay
\* as they were; the generated file is given to render_video only when
\* generate_krishna_image returned True.
C10_PoolFrame ==
    /\ pool \subseteq pool0
    /\ Cardinality(pool0 \ pool) <= 1
    /\ \A f \in pool0 \ pool :
         renderArgs.called /\ renderArgs.image = Join(IMAGE_DIR, f)
    /\ poll_ok => (pool = pool0 /\ archive = archive0)
    /\ (renderArgs.called /\ renderArgs.image = GEN_IMAGE_FILE)
         => (poll_ok /\ genFile = "complete")

\* a run that rendered the generated image and uploaded it
C10_Witness ==
    /\ pc = "done" /\ success
    /\ poll_ok /\ renderArgs.image = GEN_IMAGE_FILE

====
